---------------------------- MODULE Spec2Model ----------------------------
(***************************************************************************)
(* CasperFlow: the AutomationVault (custodial ledger) and the              *)
(* AutomationEngine (rule store, lifecycle and execution) as one state     *)
(* machine.  Every entry point of the two contracts is one action; a call  *)
(* that reverts leaves the persisted state as it was and is visible only   *)
(* in `last` (the outcome of the latest call) and in `events` (the records *)
(* that call emitted).                                                     *)
(***************************************************************************)
EXTENDS Integers, Sequences, FiniteSets, TLC

(***************************************************************************)
(* Program constants                                                       *)
(***************************************************************************)
SECONDS_PER_DAY == 86400
SECONDS_PER_WEEK == 604800
SECONDS_PER_MONTH == 2592000

(***************************************************************************)
(* Bounds of the model                                                     *)
(***************************************************************************)
\* Largest amount a single call carries (deposit, withdraw, transfer, rule).
MaxAmount == 2
\* Deposits are accepted while the total ever deposited stays within this.
MaxDeposited == 2
\* Rule ids 1..MaxRuleId can be assigned.
MaxRuleId == 1
\* A rule is executed at most this many times.
MaxExecutions == 2
\* Rule ids and executions per rule where many rules are created.
MaxLifecycleRuleId == 3
MaxTierRuleId == 4
MaxLifecycleExecutions == 1
\* Rule ids where two rules of one owner draw on the same balance.
MaxSerialRuleId == 2
\* Runs of the rule, and the most ever deposited, where its runs are followed
\* for as long as the clock and the trigger source go on.
MaxLiveExecutions == 2
MaxLiveDeposited == 3
\* Block time at deployment.
GenesisTime == 1000

(***************************************************************************)
(* Identities                                                              *)
(***************************************************************************)
NoAddr == "none"                    \* Option<Address>::None
ENGINE == "engine"                  \* address of the AutomationEngine contract
VAULT == "vault"                    \* address of the AutomationVault contract
Users == {"alice", "bob"}           \* account holders, keepers
Address == Users \cup {ENGINE, VAULT}

TriggerTypes == {"Time", "Condition", "Manual"}
Schedules == {"Daily", "Weekly", "Monthly"}
ActionTypes == {"Transfer", "Split", "Compound"}

VARIABLES
    balances,           \* vault: Mapping<Address, U512>
    authorized_engine,  \* vault: Var<Option<Address>>
    total_deposited,    \* tokens attached to successful deposits (into the vault's purse)
    total_paid_out,     \* tokens sent out of the vault's purse by transfer_tokens
    next_rule_id,       \* engine: Var<u64>
    rules,              \* engine: Mapping<u64, AutomationRule>
    user_rules,         \* engine: Mapping<Address, Vec<u64>>
    user_rule_count,    \* engine: Mapping<Address, u32>
    vault_address,      \* engine: Var<Option<Address>>
    block_time,         \* env: get_block_time()
    last,               \* the latest call: [op, result, returned]
    events              \* the records the latest call emitted

vaultVars == <<balances, authorized_engine, total_deposited, total_paid_out>>
engineVars == <<next_rule_id, rules, user_rules, user_rule_count, vault_address>>
vars == <<balances, authorized_engine, total_deposited, total_paid_out,
          next_rule_id, rules, user_rules, user_rule_count, vault_address,
          block_time, last, events>>

(***************************************************************************)
(* Outcome of a call                                                       *)
(***************************************************************************)
\* env().revert(error): the call ends, nothing it wrote or emitted is kept.
Revert(op, error) ==
    /\ last' = [op |-> op, result |-> error, returned |-> 0]
    /\ events' = <<>>
    /\ UNCHANGED <<vaultVars, engineVars, block_time>>

\* A call that returns `value` (0 for the unit value), having emitted `emitted`.
Return(op, value, emitted) ==
    /\ last' = [op |-> op, result |-> "Ok", returned |-> value]
    /\ events' = emitted

(***************************************************************************)
(* AutomationVault                                                         *)
(***************************************************************************)
Init ==
    /\ balances = [a \in Users |-> 0]
    /\ authorized_engine = NoAddr
    /\ total_deposited = 0
    /\ total_paid_out = 0
    /\ next_rule_id = 1
    /\ rules = <<>>
    /\ user_rules = [a \in Users |-> <<>>]
    /\ user_rule_count = [a \in Users |-> 0]
    /\ vault_address \in {NoAddr, VAULT}
    /\ block_time = GenesisTime
    /\ last = [op |-> "init", result |-> "Ok", returned |-> 0]
    /\ events = <<>>

\* deposit(): payable, the attached value is the amount.
Deposit(caller, amount) ==
    IF amount = 0
    THEN Revert("deposit", "ZeroAmount")
    ELSE LET new_balance == balances[caller] + amount
         IN /\ balances' = [balances EXCEPT ![caller] = new_balance]
            /\ total_deposited' = total_deposited + amount
            /\ Return("deposit", 0, <<[type |-> "Deposited", owner |-> caller,
                                    amount |-> amount, new_balance |-> new_balance]>>)
            /\ UNCHANGED <<authorized_engine, total_paid_out, engineVars, block_time>>

\* Mutant: the zero-amount check is missing.
WithdrawOutcome_NoZeroCheck(caller, amount) ==
    IF balances[caller] < amount THEN "InsufficientBalance" ELSE "Ok"

\* withdraw: the error it reverts with, or "Ok".
WithdrawOutcome(caller, amount) ==
    IF amount = 0 THEN "ZeroAmount"
    ELSE IF balances[caller] < amount THEN "InsufficientBalance"
    ELSE "Ok"

\* withdraw(amount)
Withdraw(caller, amount) ==
    IF WithdrawOutcome(caller, amount) # "Ok"
    THEN Revert("withdraw", WithdrawOutcome(caller, amount))
    ELSE LET new_balance == balances[caller] - amount
         IN /\ balances' = [balances EXCEPT ![caller] = new_balance]
            /\ total_paid_out' = total_paid_out + amount
            /\ Return("withdraw", 0, <<[type |-> "Withdrawn", owner |-> caller,
                                     amount |-> amount, new_balance |-> new_balance]>>)
            /\ UNCHANGED <<authorized_engine, total_deposited, engineVars, block_time>>

\* Mutant: the caller is compared with nothing.
IsAuthorized_AnyCaller(caller) == TRUE

\* Mutant: the comparison with the configured engine is the wrong way round.
IsAuthorized_Inverted(caller) ==
    /\ authorized_engine # NoAddr
    /\ caller # authorized_engine

\* Mutant: with no engine configured, every caller is let through.
IsAuthorized_OpenWhenUnset(caller) ==
    \/ authorized_engine = NoAddr
    \/ caller = authorized_engine

\* execute_transfer: the check that the caller is the authorized engine.
IsAuthorized(caller) ==
    /\ authorized_engine # NoAddr
    /\ caller = authorized_engine

\* Mutant: the balance is not compared with the amount.
HasBalance_Always(owner, amount) == TRUE

\* execute_transfer: the check that the owner's balance covers the amount.
HasBalance(owner, amount) == ~(balances[owner] < amount)

\* Mutant: the caller is not checked at all.
TransferOutcome_NoCallerCheck(caller, owner, amount) ==
    IF ~HasBalance(owner, amount) THEN "InsufficientBalance" ELSE "Ok"

\* execute_transfer: the error it reverts with, or "Ok".
TransferOutcome(caller, owner, amount) ==
    IF ~IsAuthorized(caller) THEN "UnauthorizedExecutor"
    ELSE IF ~HasBalance(owner, amount) THEN "InsufficientBalance"
    ELSE "Ok"

\* execute_transfer: the record it emits.
AutomationExecuted(owner, rule_id, recipient, amount) ==
    [type |-> "AutomationExecuted", owner |-> owner, rule_id |-> rule_id,
     recipient |-> recipient, amount |-> amount]

\* Mutant: the tokens leave the purse and the owner is not debited.
TransferEffect_NoDebit(owner, amount) ==
    /\ total_paid_out' = total_paid_out + amount
    /\ UNCHANGED <<balances, authorized_engine, total_deposited>>

\* execute_transfer: what a successful call writes in the vault.
TransferEffect(owner, amount) ==
    /\ balances' = [balances EXCEPT ![owner] = balances[owner] - amount]
    /\ total_paid_out' = total_paid_out + amount
    /\ UNCHANGED <<authorized_engine, total_deposited>>

\* execute_transfer(owner, recipient, amount, rule_id) called directly.
ExecuteTransfer(caller, owner, recipient, amount, rule_id) ==
    IF TransferOutcome(caller, owner, amount) # "Ok"
    THEN Revert("execute_transfer", TransferOutcome(caller, owner, amount))
    ELSE /\ TransferEffect(owner, amount)
         /\ Return("execute_transfer", 0,
                   <<AutomationExecuted(owner, rule_id, recipient, amount)>>)
         /\ UNCHANGED <<engineVars, block_time>>

\* Mutant: the authorized caller is set once and not replaced.
SetAutomationEngine_OnlyIfUnset(caller, engine) ==
    IF authorized_engine # NoAddr
    THEN Revert("set_automation_engine", "UnauthorizedExecutor")
    ELSE /\ authorized_engine' = engine
         /\ Return("set_automation_engine", 0, <<>>)
         /\ UNCHANGED <<balances, total_deposited, total_paid_out, engineVars, block_time>>

\* set_automation_engine(engine)
SetAutomationEngine(caller, engine) ==
    /\ authorized_engine' = engine
    /\ Return("set_automation_engine", 0, <<>>)
    /\ UNCHANGED <<balances, total_deposited, total_paid_out, engineVars, block_time>>

(***************************************************************************)
(* The environment's clock                                                 *)
(***************************************************************************)
AdvanceTime(t) ==
    /\ t > block_time
    /\ block_time' = t
    /\ Return("advance_time", 0, <<>>)
    /\ UNCHANGED <<vaultVars, engineVars>>

(***************************************************************************)
(* Types                                                                   *)
(***************************************************************************)
\* StakingTier::max_rules
max_rules(tier) ==
    CASE tier = "Starter" -> 2
      [] tier = "Bronze" -> 5
      [] tier = "Silver" -> 10
      [] tier = "Gold" -> 2147483647   \* u32::MAX, cut to the largest integer TLC holds

\* AutomationRule::new
NewRule(id, owner, trigger_type, schedule, action_type, recipient, amount, next_execution) ==
    [id |-> id, owner |-> owner, trigger_type |-> trigger_type, schedule |-> schedule,
     action_type |-> action_type, status |-> "Active", recipient |-> recipient,
     amount |-> amount, last_executed |-> 0, next_execution |-> next_execution,
     execution_count |-> 0]

(***************************************************************************)
(* AutomationEngine                                                        *)
(***************************************************************************)
\* get_user_tier: every account is Starter.
get_user_tier(owner) == "Starter"

\* Mutant: a month of 31 days.
calculate_next_execution_Month31(from_time, schedule) ==
    CASE schedule = "Daily" -> from_time + SECONDS_PER_DAY
      [] schedule = "Weekly" -> from_time + SECONDS_PER_WEEK
      [] schedule = "Monthly" -> from_time + 31 * SECONDS_PER_DAY

\* calculate_next_execution
calculate_next_execution(from_time, schedule) ==
    CASE schedule = "Daily" -> from_time + SECONDS_PER_DAY
      [] schedule = "Weekly" -> from_time + SECONDS_PER_WEEK
      [] schedule = "Monthly" -> from_time + SECONDS_PER_MONTH

\* create_rule: the id the new rule gets.
AllocatedRuleId == next_rule_id

\* Mutant: the counter is not advanced.
NextRuleIdAfter_Stuck(rule_id) == rule_id

\* create_rule: the counter after rule_id is handed out.
NextRuleIdAfter(rule_id) == rule_id + 1

\* Mutant: the tier check is off by one.
TierAllows_OffByOne(caller) ==
    ~(user_rule_count[caller] > max_rules(get_user_tier(caller)))

\* create_rule: the tier check; TRUE when the call goes on.
TierAllows(caller) ==
    ~(user_rule_count[caller] >= max_rules(get_user_tier(caller)))

\* create_rule(template_name, trigger_type, schedule, action_type, recipient, amount);
\* cfg holds the arguments (template_name is a display label and is left out).
CreateRule(caller, cfg) ==
    LET current_time == block_time
        current_count == user_rule_count[caller]
        rule_id == AllocatedRuleId
        next_execution == calculate_next_execution(current_time, cfg.schedule)
        rule == NewRule(rule_id, caller, cfg.trigger_type, cfg.schedule, cfg.action_type,
                        cfg.recipient, cfg.amount, next_execution)
    IN IF ~TierAllows(caller)
       THEN Revert("create_rule", "MaxRulesReached")
       ELSE /\ next_rule_id' = NextRuleIdAfter(rule_id)
            /\ rules' = (rule_id :> rule) @@ rules
            /\ user_rules' = [user_rules EXCEPT ![caller] = Append(@, rule_id)]
            /\ user_rule_count' = [user_rule_count EXCEPT ![caller] = current_count + 1]
            /\ Return("create_rule", rule_id,
                      <<[type |-> "RuleCreated", rule_id |-> rule_id, owner |-> caller]>>)
            /\ UNCHANGED <<vault_address, vaultVars, block_time>>

\* Mutant: the ownership check lets every caller through.
NotOwner_Never(rule, caller) == FALSE

\* pause_rule, resume_rule, delete_rule: the ownership check; TRUE when the
\* caller is not the rule's owner and the call reverts with NotRuleOwner.
NotOwner(rule, caller) == rule.owner # caller

\* Mutant: a Deleted rule is reported as already paused.
PauseStatusCheck_DeletedAsPaused(rule) ==
    CASE rule.status = "Paused" -> "RuleAlreadyPaused"
      [] rule.status = "Deleted" -> "RuleAlreadyPaused"
      [] rule.status = "Active" -> "Ok"

\* pause_rule: the match on the current status; the error it reverts with, or "Ok".
PauseStatusCheck(rule) ==
    CASE rule.status = "Paused" -> "RuleAlreadyPaused"
      [] rule.status = "Deleted" -> "RuleNotFound"
      [] rule.status = "Active" -> "Ok"

\* Mutant: pausing a rule gives its place in the tier back.
PauseRule_FreesCapacity(caller, rule_id) ==
    IF rule_id \notin DOMAIN rules THEN Revert("pause_rule", "RuleNotFound")
    ELSE IF NotOwner(rules[rule_id], caller) THEN Revert("pause_rule", "NotRuleOwner")
    ELSE IF PauseStatusCheck(rules[rule_id]) # "Ok"
    THEN Revert("pause_rule", PauseStatusCheck(rules[rule_id]))
    ELSE /\ rules' = [rules EXCEPT ![rule_id].status = "Paused"]
         /\ user_rule_count' = [user_rule_count EXCEPT ![caller] = @ - 1]
         /\ Return("pause_rule", 0,
                   <<[type |-> "RulePaused", rule_id |-> rule_id, owner |-> caller]>>)
         /\ UNCHANGED <<next_rule_id, user_rules, vault_address, vaultVars, block_time>>

\* pause_rule(rule_id)
PauseRule(caller, rule_id) ==
    IF rule_id \notin DOMAIN rules THEN Revert("pause_rule", "RuleNotFound")
    ELSE IF NotOwner(rules[rule_id], caller) THEN Revert("pause_rule", "NotRuleOwner")
    ELSE IF PauseStatusCheck(rules[rule_id]) # "Ok"
    THEN Revert("pause_rule", PauseStatusCheck(rules[rule_id]))
    ELSE /\ rules' = [rules EXCEPT ![rule_id].status = "Paused"]
         /\ Return("pause_rule", 0,
                   <<[type |-> "RulePaused", rule_id |-> rule_id, owner |-> caller]>>)
         /\ UNCHANGED <<next_rule_id, user_rules, user_rule_count, vault_address,
                        vaultVars, block_time>>

\* Mutant: only an Active rule is refused, a Deleted one is resumed.
ResumeStatusCheck_NoDeletedArm(rule) ==
    IF rule.status = "Active" THEN "RuleNotPaused" ELSE "Ok"

\* resume_rule: the match on the current status; the error it reverts with, or "Ok".
ResumeStatusCheck(rule) ==
    CASE rule.status = "Active" -> "RuleNotPaused"
      [] rule.status = "Deleted" -> "RuleNotFound"
      [] rule.status = "Paused" -> "Ok"

\* Mutant: a resumed rule starts counting its runs anew.
ResumedRule_ResetsCount(rule, current_time) ==
    [rule EXCEPT !.status = "Active",
                 !.next_execution = calculate_next_execution(current_time, rule.schedule),
                 !.execution_count = 0]

\* Mutant: the rule is resumed on its old schedule.
ResumedRule_KeepsSchedule(rule, current_time) ==
    [rule EXCEPT !.status = "Active"]

\* resume_rule: the rule record after a resume at current_time.
ResumedRule(rule, current_time) ==
    [rule EXCEPT !.status = "Active",
                 !.next_execution = calculate_next_execution(current_time, rule.schedule)]

\* resume_rule(rule_id)
ResumeRule(caller, rule_id) ==
    IF rule_id \notin DOMAIN rules THEN Revert("resume_rule", "RuleNotFound")
    ELSE IF NotOwner(rules[rule_id], caller) THEN Revert("resume_rule", "NotRuleOwner")
    ELSE IF ResumeStatusCheck(rules[rule_id]) # "Ok"
    THEN Revert("resume_rule", ResumeStatusCheck(rules[rule_id]))
    ELSE LET current_time == block_time
         IN /\ rules' = [rules EXCEPT ![rule_id] = ResumedRule(rules[rule_id], current_time)]
            /\ Return("resume_rule", 0,
                      <<[type |-> "RuleResumed", rule_id |-> rule_id, owner |-> caller]>>)
            /\ UNCHANGED <<next_rule_id, user_rules, user_rule_count, vault_address,
                           vaultVars, block_time>>

\* delete_rule: the status it writes.
DeletedStatus(rule) == "Deleted"

\* Mutant: the count is decremented without the check that it is above zero.
CountAfterDelete_NoFloor(current_count) == current_count - 1

\* delete_rule: the rule count it leaves for the caller.
CountAfterDelete(current_count) ==
    IF current_count > 0 THEN current_count - 1 ELSE current_count

\* Mutant: the deleted rule's id is taken out of the caller's index.
DeleteRule_RemovesFromIndex(caller, rule_id) ==
    IF rule_id \notin DOMAIN rules THEN Revert("delete_rule", "RuleNotFound")
    ELSE IF NotOwner(rules[rule_id], caller) THEN Revert("delete_rule", "NotRuleOwner")
    ELSE /\ rules' = [rules EXCEPT ![rule_id].status = DeletedStatus(rules[rule_id])]
         /\ user_rules' = [user_rules EXCEPT
                             ![caller] = SelectSeq(@, LAMBDA id : id # rule_id)]
         /\ user_rule_count' =
                [user_rule_count EXCEPT ![caller] = CountAfterDelete(user_rule_count[caller])]
         /\ Return("delete_rule", 0,
                   <<[type |-> "RuleDeleted", rule_id |-> rule_id, owner |-> caller]>>)
         /\ UNCHANGED <<next_rule_id, vault_address, vaultVars, block_time>>

\* delete_rule(rule_id)
DeleteRule(caller, rule_id) ==
    IF rule_id \notin DOMAIN rules THEN Revert("delete_rule", "RuleNotFound")
    ELSE IF NotOwner(rules[rule_id], caller) THEN Revert("delete_rule", "NotRuleOwner")
    ELSE /\ rules' = [rules EXCEPT ![rule_id].status = DeletedStatus(rules[rule_id])]
         /\ user_rule_count' =
                [user_rule_count EXCEPT ![caller] = CountAfterDelete(user_rule_count[caller])]
         /\ Return("delete_rule", 0,
                   <<[type |-> "RuleDeleted", rule_id |-> rule_id, owner |-> caller]>>)
         /\ UNCHANGED <<next_rule_id, user_rules, vault_address, vaultVars, block_time>>

\* Mutant: only a Deleted rule is refused, a Paused one runs.
ExecuteStatusCheck_PausedRuns(rule) ==
    IF rule.status = "Deleted" THEN "RuleNotActive" ELSE "Ok"

\* execute_rule: the match on the status; the error it reverts with, or "Ok".
ExecuteStatusCheck(rule) ==
    IF rule.status = "Active" THEN "Ok" ELSE "RuleNotActive"

\* Mutant: a rule is not yet due at its next_execution itself.
NotYetDue_Inclusive(current_time, rule) == current_time <= rule.next_execution

\* execute_rule: the time check of a Time rule; TRUE when the rule is not yet due.
NotYetDue(current_time, rule) == current_time < rule.next_execution

\* Mutant: a Condition rule is checked like a Manual rule.
DueCheck_ConditionOwnerGated(rule, caller, current_time) ==
    CASE rule.trigger_type = "Time" ->
             IF NotYetDue(current_time, rule) THEN "TriggerTimeNotReached" ELSE "Ok"
      [] rule.trigger_type \in {"Manual", "Condition"} ->
             IF rule.owner # caller THEN "NotRuleOwner" ELSE "Ok"

\* Mutant: a Manual rule is time-gated like a Time rule and open to every caller.
DueCheck_ManualTimeGated(rule, caller, current_time) ==
    CASE rule.trigger_type \in {"Time", "Manual"} ->
             IF NotYetDue(current_time, rule) THEN "TriggerTimeNotReached" ELSE "Ok"
      [] rule.trigger_type = "Condition" -> "Ok"

\* execute_rule: the due-check on the trigger kind; the error it reverts with, or "Ok".
DueCheck(rule, caller, current_time) ==
    CASE rule.trigger_type = "Time" ->
             IF NotYetDue(current_time, rule) THEN "TriggerTimeNotReached" ELSE "Ok"
      [] rule.trigger_type = "Manual" ->
             IF rule.owner # caller THEN "NotRuleOwner" ELSE "Ok"
      [] rule.trigger_type = "Condition" -> "Ok"

\* Mutant: every action kind, Compound too, goes through execute_transfer.
IsTransferAction_All(rule) == TRUE

\* execute_rule: TRUE when the action goes through execute_transfer.
IsTransferAction(rule) == rule.action_type \in {"Transfer", "Split"}

\* Mutant: a missing recipient is not checked before the vault is called.
EngineTransferOutcome_NoRecipientCheck(rule) ==
    IF vault_address = NoAddr THEN "InvalidRuleConfig"
    ELSE IF vault_address # VAULT THEN "ContractCallFailed"
    ELSE TransferOutcome(ENGINE, rule.owner, rule.amount)

\* Mutant: the vault's refusal is swallowed.
EngineTransferOutcome_IgnoresVault(rule) ==
    IF vault_address = NoAddr THEN "InvalidRuleConfig"
    ELSE IF rule.recipient = NoAddr THEN "InvalidRuleConfig"
    ELSE "Ok"

\* The engine's execute_transfer(rule): the error the call reverts with, or "Ok".
\* The vault sees the engine's address as the caller.  A vault reference that is
\* not the vault's address names no contract, and the call into it fails.
EngineTransferOutcome(rule) ==
    IF vault_address = NoAddr THEN "InvalidRuleConfig"
    ELSE IF rule.recipient = NoAddr THEN "InvalidRuleConfig"
    ELSE IF vault_address # VAULT THEN "ContractCallFailed"
    ELSE TransferOutcome(ENGINE, rule.owner, rule.amount)

\* execute_rule: the dispatch on the action kind; the error it reverts with, or "Ok".
DispatchOutcome(rule) ==
    IF IsTransferAction(rule) THEN EngineTransferOutcome(rule) ELSE "Ok"

\* Mutant: the next run is scheduled from the missed next_execution.
ExecutedRule_FromMissedSlot(rule, current_time) ==
    [rule EXCEPT !.last_executed = current_time,
                 !.next_execution = calculate_next_execution(rule.next_execution, rule.schedule),
                 !.execution_count = rule.execution_count + 1]

\* execute_rule: the rule record after a run at current_time.
ExecutedRule(rule, current_time) ==
    [rule EXCEPT !.last_executed = current_time,
                 !.next_execution = calculate_next_execution(current_time, rule.schedule),
                 !.execution_count = rule.execution_count + 1]

\* execute_rule(rule_id)
ExecuteRule(caller, rule_id) ==
    IF rule_id \notin DOMAIN rules THEN Revert("execute_rule", "RuleNotFound")
    ELSE LET current_time == block_time
             rule == rules[rule_id]
         IN IF ExecuteStatusCheck(rule) # "Ok"
            THEN Revert("execute_rule", ExecuteStatusCheck(rule))
            ELSE IF DueCheck(rule, caller, current_time) # "Ok"
            THEN Revert("execute_rule", DueCheck(rule, caller, current_time))
            ELSE IF DispatchOutcome(rule) # "Ok"
            THEN Revert("execute_rule", DispatchOutcome(rule))
            ELSE /\ IF IsTransferAction(rule)
                    THEN TransferEffect(rule.owner, rule.amount)
                    ELSE UNCHANGED vaultVars
                 /\ rules' = [rules EXCEPT ![rule_id] = ExecutedRule(rule, current_time)]
                 /\ Return("execute_rule", 0,
                           (IF IsTransferAction(rule)
                            THEN <<AutomationExecuted(rule.owner, rule.id,
                                                      rule.recipient, rule.amount)>>
                            ELSE <<>>)
                           \o <<[type |-> "RuleExecuted", rule_id |-> rule_id,
                                 owner |-> rule.owner, executed_at |-> current_time]>>)
                 /\ UNCHANGED <<next_rule_id, user_rules, user_rule_count, vault_address,
                                block_time>>

\* set_vault_address(vault)
SetVaultAddress(caller, vault) ==
    /\ vault_address' = vault
    /\ Return("set_vault_address", 0, <<>>)
    /\ UNCHANGED <<next_rule_id, rules, user_rules, user_rule_count, vaultVars, block_time>>

(***************************************************************************)
(* The arguments callers pass, and the specifications                      *)
(***************************************************************************)
\* Arguments of create_rule.
TimeTransfer ==
    [trigger_type |-> "Time", schedule |-> "Daily", action_type |-> "Transfer",
     recipient |-> "bob", amount |-> 1]
ManualCompound ==
    [trigger_type |-> "Manual", schedule |-> "Weekly", action_type |-> "Compound",
     recipient |-> NoAddr, amount |-> 0]
TimeTransferLarge ==
    [trigger_type |-> "Time", schedule |-> "Daily", action_type |-> "Transfer",
     recipient |-> "bob", amount |-> 2]
RuleInputs ==
    { TimeTransfer,
      [trigger_type |-> "Time", schedule |-> "Weekly", action_type |-> "Split",
       recipient |-> "alice", amount |-> 2],
      [trigger_type |-> "Manual", schedule |-> "Monthly", action_type |-> "Transfer",
       recipient |-> "bob", amount |-> 2],
      [trigger_type |-> "Condition", schedule |-> "Weekly", action_type |-> "Transfer",
       recipient |-> "alice", amount |-> 1],
      [trigger_type |-> "Manual", schedule |-> "Daily", action_type |-> "Split",
       recipient |-> NoAddr, amount |-> 1],
      [trigger_type |-> "Time", schedule |-> "Daily", action_type |-> "Compound",
       recipient |-> NoAddr, amount |-> 0] }

\* Calls into the vault, with arguments drawn from the sets of profile P.
VaultCalls(P) ==
    \/ \E c \in Users, a \in 0..P.maxAmount :
          total_deposited + a <= P.maxDeposited /\ Deposit(c, a)
    \/ \E c \in Users, a \in 0..P.maxAmount : Withdraw(c, a)
    \/ \E c \in Users, o \in Users, a \in 0..P.maxAmount, id \in {1, P.maxRuleId + 1} :
          ExecuteTransfer(c, o, "bob", a, id)
    \/ \E c \in Users, e \in P.engines : SetAutomationEngine(c, e)

\* Calls into the engine, with arguments drawn from the sets of profile P.
EngineCalls(P) ==
    \/ \E c \in P.creators, cfg \in P.ruleInputs :
          next_rule_id <= P.maxRuleId /\ CreateRule(c, cfg)
    \/ \E c \in Users, id \in 1..(P.maxRuleId + 1) : PauseRule(c, id)
    \/ \E c \in Users, id \in 1..(P.maxRuleId + 1) : ResumeRule(c, id)
    \/ \E c \in Users, id \in 1..(P.maxRuleId + 1) : DeleteRule(c, id)
    \/ \E c \in Users, id \in 1..(P.maxRuleId + 1) :
          /\ id \in DOMAIN rules => rules[id].execution_count < P.maxExecutions
          /\ ExecuteRule(c, id)
    \/ \E c \in Users : SetVaultAddress(c, VAULT)

\* The block time moving on.
ClockSteps(P) == \E o \in P.timeOffsets : AdvanceTime(GenesisTime + o)

\* The whole system: one rule with every kind of trigger and action, the vault
\* and the clock.
ExecutionProfile ==
    [maxAmount |-> MaxAmount, maxDeposited |-> MaxDeposited, maxRuleId |-> MaxRuleId,
     maxExecutions |-> MaxExecutions, engines |-> {ENGINE, "bob"}, creators |-> Users,
     ruleInputs |-> RuleInputs,
     timeOffsets |-> {SECONDS_PER_DAY, 2 * SECONDS_PER_DAY}]

Next ==
    \/ VaultCalls(ExecutionProfile)
    \/ EngineCalls(ExecutionProfile)
    \/ ClockSteps(ExecutionProfile)

Spec == Init /\ [][Next]_vars

\* The engine alone, with several rules of one kind: the vault stays as deployed
\* and the block time stays at GenesisTime.
LifecycleProfile ==
    [maxRuleId |-> MaxLifecycleRuleId, maxExecutions |-> MaxLifecycleExecutions,
     creators |-> Users, ruleInputs |-> {ManualCompound}]

NextLifecycle == EngineCalls(LifecycleProfile)

SpecLifecycle == Init /\ [][NextLifecycle]_vars

\* The engine alone, with one account creating more rules than its tier holds.
TierProfile ==
    [maxRuleId |-> MaxTierRuleId, maxExecutions |-> MaxLifecycleExecutions,
     creators |-> {"alice"}, ruleInputs |-> {ManualCompound}]

NextTier == EngineCalls(TierProfile)

SpecTier == Init /\ [][NextTier]_vars

\* The whole system with two Time Transfer rules of one owner, for 1 and for 2,
\* both due a day after GenesisTime.
SerialProfile ==
    [maxAmount |-> MaxAmount, maxDeposited |-> MaxDeposited, maxRuleId |-> MaxSerialRuleId,
     maxExecutions |-> MaxLifecycleExecutions, engines |-> {ENGINE}, creators |-> {"alice"},
     ruleInputs |-> {TimeTransfer, TimeTransferLarge},
     timeOffsets |-> {SECONDS_PER_DAY}]

NextSerial ==
    \/ VaultCalls(SerialProfile)
    \/ EngineCalls(SerialProfile)
    \/ ClockSteps(SerialProfile)

SpecSerial == Init /\ [][NextSerial]_vars

\* One Time Transfer rule, its owner's deposits and withdrawals, the wiring
\* calls, and a clock and a trigger source that keep going.  The clock moves a
\* day at a time, up to the latest next_execution a stored rule waits for (a
\* day after GenesisTime while there is none).
LiveHorizon ==
    LET waits == {GenesisTime + SECONDS_PER_DAY} \cup
                 {rules[id].next_execution : id \in DOMAIN rules}
    IN CHOOSE t \in waits : \A u \in waits : u <= t

LiveClock ==
    /\ block_time < LiveHorizon
    /\ AdvanceTime(block_time + SECONDS_PER_DAY)

\* The keeper: anyone calling execute_rule on the rule.
TriggerSource ==
    \E c \in Users :
        /\ 1 \in DOMAIN rules => rules[1].execution_count < MaxLiveExecutions
        /\ ExecuteRule(c, 1)

NextLive ==
    \/ \E a \in 1..MaxAmount :
          total_deposited + a <= MaxLiveDeposited /\ Deposit("alice", a)
    \/ Withdraw("alice", 1)
    \/ \E e \in {ENGINE, "bob"} : SetAutomationEngine("bob", e)
    \/ SetVaultAddress("alice", VAULT)
    \/ next_rule_id <= 1 /\ CreateRule("alice", TimeTransfer)
    \/ \E c \in Users : PauseRule(c, 1)
    \/ \E c \in Users : DeleteRule(c, 1)
    \/ TriggerSource
    \/ LiveClock

\* Weak fairness of the clock and of the trigger source.
SpecLive ==
    /\ Init
    /\ [][NextLive]_vars
    /\ WF_vars(LiveClock)
    /\ WF_vars(TriggerSource)

(***************************************************************************)
(* Properties                                                              *)
(***************************************************************************)
RECURSIVE SumOver(_, _)
\* The sum of f over the accounts in S.
SumOver(f, S) ==
    IF S = {} THEN 0
    ELSE LET a == CHOOSE x \in S : TRUE IN f[a] + SumOver(f, S \ {a})

\* Everything a reverted call leaves as it was.
persisted == <<vaultVars, engineVars, block_time>>

\* The call made no change and emitted nothing.
NothingHappened == UNCHANGED persisted /\ events' = <<>>

\* The rule is due for this caller: a Time rule at or after next_execution, a
\* Manual rule for its owner, a Condition rule always.
PassesDueCheck(rule, caller) ==
    \/ rule.trigger_type = "Time" /\ block_time >= rule.next_execution
    \/ rule.trigger_type = "Manual" /\ caller = rule.owner
    \/ rule.trigger_type = "Condition"

\* Executing the rule calls the vault: a Transfer or Split rule with a recipient,
\* and the engine holds the vault's address.
ReachesVault(rule) ==
    /\ rule.action_type \in {"Transfer", "Split"}
    /\ rule.recipient # NoAddr
    /\ vault_address = VAULT

\* The rules of account u that are Active or Paused.
LiveRules(u) ==
    {id \in DOMAIN rules : rules[id].owner = u /\ rules[id].status \in {"Active", "Paused"}}

\* The period of a schedule, in seconds.
Period(schedule) ==
    CASE schedule = "Daily" -> 86400
      [] schedule = "Weekly" -> 604800
      [] schedule = "Monthly" -> 2592000

\* C1: balance conservation.  In every state reached by any sequence of deposit,
\* withdraw, execute_transfer (and execute_rule) calls, failed ones included, the
\* balances plus everything paid out equal everything deposited, and no balance
\* is negative.
C1_BalanceConservation ==
    /\ SumOver(balances, Users) + total_paid_out = total_deposited
    /\ \A a \in Users : balances[a] >= 0

\* C1 witness: everything allowed was deposited, and withdrawals or transfers,
\* the last one a direct execute_transfer, have paid part of it out.
C1_Witness ==
    /\ last.op = "execute_transfer" /\ last.result = "Ok"
    /\ total_deposited = MaxDeposited
    /\ total_paid_out = 2
    /\ \E a \in Users : balances[a] = 0 /\ balances[CHOOSE b \in Users : b # a] = total_deposited - 2

\* C2: authorization.  A direct execute_transfer by a caller that is not the
\* configured authorized caller (none configured included) reverts with
\* UnauthorizedExecutor, changes no balance and emits nothing; so does the
\* engine's transfer when the engine is not the authorized caller.
C2_UnauthorizedTransferRejected ==
    [][ /\ last'.op = "execute_transfer" =>
             \/ last'.result = "UnauthorizedExecutor" /\ NothingHappened
             \/ ~ \E c \in Users, o \in Users, a \in 0..MaxAmount, id \in {1, MaxRuleId + 1} :
                     c # authorized_engine /\ ExecuteTransfer(c, o, "bob", a, id)
        /\ last'.op = "execute_rule" =>
             \/ last'.result = "UnauthorizedExecutor" /\ NothingHappened
             \/ ~ \E c \in Users, id \in DOMAIN rules :
                     /\ authorized_engine # ENGINE
                     /\ rules[id].status = "Active"
                     /\ PassesDueCheck(rules[id], c)
                     /\ ReachesVault(rules[id])
                     /\ ExecuteRule(c, id)
      ]_vars

\* C2 witness: a user is the authorized caller, the other account holds funds,
\* and a direct execute_transfer has just been refused.
C2_Witness ==
    /\ last.op = "execute_transfer" /\ last.result = "UnauthorizedExecutor"
    /\ authorized_engine = "bob"
    /\ balances["alice"] > 0

\* C3: tier limit.  No account ever holds more than 2 rules that are Active or
\* Paused.
C3_TierLimitHolds == \A u \in Users : Cardinality(LiveRules(u)) <= 2

\* C4: tier gate.  An account with no rules has rule count 0; create_rule
\* succeeds and raises the caller's count by one while the count is below 2, and
\* reverts with MaxRulesReached, changing nothing, when the count is 2; a
\* delete_rule by an account whose count is 2 leaves the count at 1, so exactly
\* one further create_rule succeeds.
C4_TierGate ==
    /\ [](\A u \in Users : user_rules[u] = <<>> => user_rule_count[u] = 0)
    /\ [][
          /\ last'.op = "create_rule" =>
                \A c \in Users, cfg \in RuleInputs \cup {ManualCompound} :
                    CreateRule(c, cfg) =>
                        IF user_rule_count[c] < 2
                        THEN /\ last'.result = "Ok"
                             /\ user_rule_count'[c] = user_rule_count[c] + 1
                        ELSE /\ user_rule_count[c] = 2
                             /\ last'.result = "MaxRulesReached"
                             /\ NothingHappened
          /\ (last'.op = "delete_rule" /\ last'.result = "Ok") =>
                LET deleter == events'[1].owner
                IN user_rule_count[deleter] = 2 => user_rule_count'[deleter] = 1
       ]_vars

\* C4 witness: alice created rules 1 and 2, deleted one of them, and her next
\* create_rule has just succeeded, bringing her count back to 2.
C4_Witness ==
    /\ last = [op |-> "create_rule", result |-> "Ok", returned |-> 3]
    /\ user_rules["alice"] = <<1, 2, 3>>
    /\ user_rule_count["alice"] = 2
    /\ Cardinality(LiveRules("alice")) = 2
    /\ \E id \in {1, 2} : rules[id].status = "Deleted"

\* C5: rule id monotonicity.  The stored ids are always 1..next_rule_id-1, each
\* record under its own id; a successful create_rule returns next_rule_id, which
\* was not in use, advances the counter by one and leaves every earlier record
\* as it was; no other step (a failed create_rule, a delete_rule, ...) moves
\* the counter or the set of ids.
C5_RuleIdMonotonic ==
    /\ [](/\ DOMAIN rules = 1..(next_rule_id - 1)
          /\ \A id \in DOMAIN rules : rules[id].id = id)
    /\ [][ IF last'.op = "create_rule" /\ last'.result = "Ok"
           THEN /\ last'.returned = next_rule_id
                /\ next_rule_id \notin DOMAIN rules
                /\ next_rule_id' = next_rule_id + 1
                /\ DOMAIN rules' = DOMAIN rules \cup {next_rule_id}
                /\ \A id \in DOMAIN rules : rules'[id] = rules[id]
           ELSE /\ next_rule_id' = next_rule_id
                /\ DOMAIN rules' = DOMAIN rules
          ]_vars

\* C5 witness: two rules were created, one was deleted, and the next successful
\* create_rule, by the other account, has just returned id 3.
C5_Witness ==
    /\ last = [op |-> "create_rule", result |-> "Ok", returned |-> 3]
    /\ next_rule_id = 4
    /\ rules[1].status = "Deleted"
    /\ rules[3].owner # rules[1].owner

\* C6: status machine.  In every step a rule's status changes only from Active
\* to Paused in a pause_rule, from Paused to Active in a resume_rule, or from
\* Active or Paused to Deleted in a delete_rule; no other call (execute_rule,
\* the vault's calls) changes it, a Deleted rule stays Deleted, and no rule
\* leaves the store.
C6_StatusMachine ==
    [][ \A id \in DOMAIN rules :
          /\ id \in DOMAIN rules'
          /\ rules'[id].status # rules[id].status =>
               \/ /\ rules[id].status = "Active" /\ rules'[id].status = "Paused"
                  /\ last'.op = "pause_rule"
               \/ /\ rules[id].status = "Paused" /\ rules'[id].status = "Active"
                  /\ last'.op = "resume_rule"
               \/ /\ rules[id].status \in {"Active", "Paused"}
                  /\ rules'[id].status = "Deleted"
                  /\ last'.op = "delete_rule"
      ]_vars

\* C6 witness: a rule that ran and was then deleted; a resume_rule on it has
\* just been refused.
C6_Witness ==
    /\ last.op = "resume_rule" /\ last.result = "RuleNotFound"
    /\ 1 \in DOMAIN rules
    /\ rules[1].status = "Deleted"
    /\ rules[1].execution_count > 0

\* C7: atomic abort.  When execute_rule on an Active, due Transfer or Split rule
\* reaches the vault and the vault refuses (the engine is not the authorized
\* caller, or the owner's balance is below the amount), execute_rule reverts
\* with the vault's error, nothing persisted changes and nothing is emitted.
C7_AtomicAbort ==
    [][ last'.op = "execute_rule" =>
          \A c \in Users, id \in DOMAIN rules :
              ( /\ rules[id].status = "Active"
                /\ PassesDueCheck(rules[id], c)
                /\ ReachesVault(rules[id])
                /\ \/ authorized_engine # ENGINE
                   \/ balances[rules[id].owner] < rules[id].amount
                /\ ExecuteRule(c, id) )
              => /\ last'.result = IF authorized_engine # ENGINE
                                   THEN "UnauthorizedExecutor"
                                   ELSE "InsufficientBalance"
                 /\ NothingHappened
      ]_vars

\* C7 witness: the engine is authorized, a rule has run once, and its next run
\* has just been refused for lack of balance.
C7_Witness ==
    /\ last.op = "execute_rule" /\ last.result = "InsufficientBalance"
    /\ authorized_engine = ENGINE
    /\ rules[1].execution_count = 1

\* C8: early execution.  execute_rule on an Active Time rule while block_time is
\* below next_execution reverts with TriggerTimeNotReached for every caller,
\* changes nothing and emits nothing; at block_time = next_execution it does
\* not revert with TriggerTimeNotReached.
C8_EarlyExecutionRejected ==
    [][ last'.op = "execute_rule" =>
          \A c \in Users, id \in DOMAIN rules :
              ( /\ rules[id].status = "Active"
                /\ rules[id].trigger_type = "Time"
                /\ ExecuteRule(c, id) )
              => /\ block_time < rules[id].next_execution =>
                        last'.result = "TriggerTimeNotReached" /\ NothingHappened
                 /\ block_time = rules[id].next_execution =>
                        last'.result # "TriggerTimeNotReached"
      ]_vars

\* C8 witness: time has moved on, the rule is still not due, and an execute_rule
\* has just been refused.
C8_Witness ==
    /\ last.op = "execute_rule" /\ last.result = "TriggerTimeNotReached"
    /\ block_time > GenesisTime
    /\ rules[1].execution_count = 0

\* C9: effect of a successful execution.  A successful execute_rule at block
\* time t on a Transfer rule lowers the owner's balance by exactly the amount
\* (no other balance moves), pays the amount out to the recipient under the
\* rule's id, and leaves the rule with last_executed = t, next_execution =
\* t + period(schedule) and execution_count one higher, nothing else changed.
C9_ExecutionEffect ==
    [][ (last'.op = "execute_rule" /\ last'.result = "Ok") =>
          LET id == events'[Len(events')].rule_id
              rule == rules[id]
          IN rule.action_type = "Transfer" =>
               /\ balances' = [balances EXCEPT ![rule.owner] = balances[rule.owner] - rule.amount]
               /\ total_paid_out' = total_paid_out + rule.amount
               /\ events'[1] = [type |-> "AutomationExecuted", owner |-> rule.owner,
                                rule_id |-> id, recipient |-> rule.recipient,
                                amount |-> rule.amount]
               /\ rules' = [rules EXCEPT
                              ![id] = [rule EXCEPT
                                         !.last_executed = block_time,
                                         !.next_execution = block_time + Period(rule.schedule),
                                         !.execution_count = rule.execution_count + 1]]
      ]_vars

\* C9 witness: alice deposited 2, her Daily rule for 1 was created at
\* GenesisTime and has just run at GenesisTime + 86400.
C9_Witness ==
    /\ last.op = "execute_rule" /\ last.result = "Ok"
    /\ total_deposited = 2 /\ balances["alice"] = 1 /\ total_paid_out = 1
    /\ rules[1].owner = "alice" /\ rules[1].trigger_type = "Time"
    /\ rules[1].action_type = "Transfer" /\ rules[1].amount = 1
    /\ rules[1].last_executed = GenesisTime + 86400
    /\ rules[1].next_execution = GenesisTime + 172800
    /\ rules[1].execution_count = 1

\* C10: withdraw guard.  withdraw(amount) with amount above the caller's balance
\* reverts with InsufficientBalance; withdraw(0) and a deposit of 0 revert with
\* ZeroAmount whatever the balance; none of them changes anything.
C10_WithdrawGuard ==
    [][ /\ last'.op = "withdraw" =>
             \A c \in Users, a \in 0..MaxAmount :
                 Withdraw(c, a) =>
                     /\ a = 0 => last'.result = "ZeroAmount" /\ NothingHappened
                     /\ (a > 0 /\ balances[c] < a) =>
                            last'.result = "InsufficientBalance" /\ NothingHappened
        /\ last'.op = "deposit" =>
             \A c \in Users : Deposit(c, 0) => last'.result = "ZeroAmount" /\ NothingHappened
      ]_vars

\* C10 witness: everything deposited was withdrawn again (no caller is
\* authorized, so nothing left by transfer), and a further withdraw has just
\* been refused with the balances still 0.
C10_Witness ==
    /\ last.op = "withdraw" /\ last.result = "InsufficientBalance"
    /\ authorized_engine = NoAddr
    /\ total_deposited = 2 /\ total_paid_out = 2
    /\ \A a \in Users : balances[a] = 0

\* C11: owner-only lifecycle.  pause_rule, resume_rule and delete_rule on an
\* existing rule by a caller who is not its owner revert with NotRuleOwner,
\* whatever the rule's status, and leave the rule records, every rule count and
\* every history index as they were; nothing is emitted.
C11_OwnerOnlyLifecycle ==
    [][ last'.op \in {"pause_rule", "resume_rule", "delete_rule"} =>
          \/ /\ last'.result = "NotRuleOwner"
             /\ UNCHANGED <<rules, user_rule_count, user_rules>>
             /\ NothingHappened
          \/ ~ \E c \in Users, id \in DOMAIN rules :
                  /\ rules[id].owner # c
                  /\ \/ PauseRule(c, id)
                     \/ ResumeRule(c, id)
                     \/ DeleteRule(c, id)
      ]_vars

\* C11 witness: the only rule there is has been deleted by its owner, the
\* other account holds a paused rule of its own, and a delete_rule by a caller
\* who owns neither the one nor the other has just been refused.
C11_Witness ==
    /\ last.op = "delete_rule" /\ last.result = "NotRuleOwner"
    /\ next_rule_id = 3
    /\ rules[1].status = "Deleted"
    /\ rules[2].status = "Paused"
    /\ rules[1].owner # rules[2].owner

\* C12: pause and resume error outcomes.  Called by the owner, pause_rule on a
\* Paused rule reverts with RuleAlreadyPaused and resume_rule on an Active rule
\* with RuleNotPaused; on a Deleted rule both revert with RuleNotFound, and so
\* they do for every caller on an id that was never assigned; each of these
\* failures leaves the rule store as it was and emits nothing.
C12_PauseResumeErrors ==
    [][ /\ last'.op = "pause_rule" =>
             \A c \in Users, id \in 1..(MaxLifecycleRuleId + 1) :
                 PauseRule(c, id) =>
                     /\ id \notin DOMAIN rules =>
                            last'.result = "RuleNotFound" /\ NothingHappened
                     /\ (id \in DOMAIN rules /\ rules[id].owner = c) =>
                            /\ rules[id].status = "Paused" =>
                                   last'.result = "RuleAlreadyPaused" /\ NothingHappened
                            /\ rules[id].status = "Deleted" =>
                                   last'.result = "RuleNotFound" /\ NothingHappened
        /\ last'.op = "resume_rule" =>
             \A c \in Users, id \in 1..(MaxLifecycleRuleId + 1) :
                 ResumeRule(c, id) =>
                     /\ id \notin DOMAIN rules =>
                            last'.result = "RuleNotFound" /\ NothingHappened
                     /\ (id \in DOMAIN rules /\ rules[id].owner = c) =>
                            /\ rules[id].status = "Active" =>
                                   last'.result = "RuleNotPaused" /\ NothingHappened
                            /\ rules[id].status = "Deleted" =>
                                   last'.result = "RuleNotFound" /\ NothingHappened
      ]_vars

\* C12 witness: every id has been assigned, so the refusal is about a stored
\* rule; among them are an Active, a Paused and a Deleted one, and a pause_rule
\* on the paused one has just been refused.
C12_Witness ==
    /\ last.op = "pause_rule" /\ last.result = "RuleAlreadyPaused"
    /\ next_rule_id = MaxLifecycleRuleId + 1
    /\ {rules[id].status : id \in DOMAIN rules} = {"Active", "Paused", "Deleted"}

\* The errors execute_rule reverts with in its due-check.
DueCheckErrors == {"TriggerTimeNotReached", "NotRuleOwner"}

\* C13: Manual rules are owner-gated and not time-gated.  execute_rule on an
\* Active Manual rule by a caller other than its owner reverts with
\* NotRuleOwner and changes nothing; called by the owner it never ends in a
\* due-check error, whatever the block time is (before next_execution, right
\* after an earlier run): it goes on to the action.
C13_ManualOwnerGated ==
    [][ last'.op = "execute_rule" =>
          \A c \in Users, id \in DOMAIN rules :
              ( /\ rules[id].status = "Active"
                /\ rules[id].trigger_type = "Manual"
                /\ ExecuteRule(c, id) )
              => IF c # rules[id].owner
                 THEN last'.result = "NotRuleOwner" /\ NothingHappened
                 ELSE /\ last'.result \notin DueCheckErrors
                      /\ last'.result = DispatchOutcome(rules[id])
      ]_vars

\* C13 witness: a Manual rule ran at the block time it was created at, long
\* before its next_execution, and a further execute_rule at that same block
\* time has just gone past the due-check, to be refused by the vault.
C13_Witness ==
    /\ last.op = "execute_rule" /\ last.result = "InsufficientBalance"
    /\ rules[1].trigger_type = "Manual"
    /\ rules[1].execution_count = 1
    /\ rules[1].last_executed = block_time
    /\ block_time < rules[1].next_execution

\* The records of the latest call that belong to the vault's log, and to the
\* engine's log.
VaultRecords ==
    {i \in 1..Len(events) : events[i].type \in {"Deposited", "Withdrawn", "AutomationExecuted"}}
EngineRecords ==
    {i \in 1..Len(events) : events[i].type \in
        {"RuleCreated", "RulePaused", "RuleResumed", "RuleDeleted", "RuleExecuted"}}

\* C14: audit completeness.  Every step that changes what the vault persists
\* (balances, authorized caller) appends exactly one record to the vault's
\* log, and every step that changes what the engine persists (rule counter,
\* rules, indices, counts, vault reference) appends exactly one record to the
\* engine's log; set_automation_engine and set_vault_address are no exception.
C14_AuditComplete ==
    [][ /\ <<balances, authorized_engine>>' # <<balances, authorized_engine>> =>
              Cardinality(VaultRecords') = 1
        /\ engineVars' # engineVars =>
              Cardinality(EngineRecords') = 1
      ]_vars

\* C15: bootstrap window.  While no authorized caller is configured, every
\* execute_transfer reverts with UnauthorizedExecutor, every execute_rule on an
\* Active, due Transfer or Split rule reverts, and only a withdraw lowers a
\* balance; the window ends by a set_automation_engine call and by nothing
\* else, and does not open again; once the engine is the authorized caller, its
\* execute_rule on an Active, due Transfer rule whose owner's balance covers the
\* amount succeeds.
C15_BootstrapWindow ==
    [][ /\ authorized_engine = NoAddr =>
              /\ last'.op = "execute_transfer" =>
                     last'.result = "UnauthorizedExecutor" /\ NothingHappened
              /\ last'.op = "execute_rule" =>
                     \A c \in Users, id \in DOMAIN rules :
                         ( /\ rules[id].status = "Active"
                           /\ PassesDueCheck(rules[id], c)
                           /\ rules[id].action_type \in {"Transfer", "Split"}
                           /\ ExecuteRule(c, id) )
                         => /\ last'.result \in {"UnauthorizedExecutor", "InvalidRuleConfig"}
                            /\ ReachesVault(rules[id]) => last'.result = "UnauthorizedExecutor"
                            /\ NothingHappened
              /\ \A a \in Users : balances'[a] < balances[a] => last'.op = "withdraw"
              /\ total_paid_out' # total_paid_out => last'.op = "withdraw"
        /\ authorized_engine' # authorized_engine =>
              /\ last'.op = "set_automation_engine"
              /\ authorized_engine' # NoAddr
        /\ (authorized_engine = ENGINE /\ last'.op = "execute_rule") =>
              \A c \in Users, id \in DOMAIN rules :
                  ( /\ rules[id].status = "Active"
                    /\ PassesDueCheck(rules[id], c)
                    /\ rules[id].action_type = "Transfer"
                    /\ ReachesVault(rules[id])
                    /\ balances[rules[id].owner] >= rules[id].amount
                    /\ ExecuteRule(c, id) )
                  => /\ last'.result = "Ok"
                     /\ balances'[rules[id].owner] = balances[rules[id].owner] - rules[id].amount
      ]_vars

\* C15 witness: no authorized caller has been configured yet; the engine holds
\* the vault's address, the owner's balance covers the amount of the Active
\* rule, and its execute_rule has just been refused by the vault.
C15_Witness ==
    /\ authorized_engine = NoAddr
    /\ last.op = "execute_rule" /\ last.result = "UnauthorizedExecutor"
    /\ vault_address = VAULT
    /\ rules[1].status = "Active"
    /\ rules[1].amount > 0
    /\ balances[rules[1].owner] >= rules[1].amount

\* C16: non-Active rules never execute.  execute_rule on a Paused or Deleted
\* rule reverts with RuleNotActive, and on an id that was never assigned with
\* RuleNotFound, for every caller, trigger kind and block time; no balance
\* changes, the rule's last_executed, next_execution and execution_count stay,
\* and nothing is emitted (no record of the vault, so the vault was not called).
C16_NonActiveNeverExecutes ==
    [][ last'.op = "execute_rule" =>
          \A c \in Users, id \in 1..(MaxRuleId + 1) :
              ( /\ id \in DOMAIN rules => rules[id].status \in {"Paused", "Deleted"}
                /\ ExecuteRule(c, id) )
              => /\ last'.result = IF id \in DOMAIN rules THEN "RuleNotActive"
                                   ELSE "RuleNotFound"
                 /\ balances' = balances
                 /\ rules' = rules
                 /\ NothingHappened
      ]_vars

\* C16 witness: a Time rule of an owner with funds, paused, and due by the
\* clock; an execute_rule on it has just been refused.
C16_Witness ==
    /\ last.op = "execute_rule" /\ last.result = "RuleNotActive"
    /\ rules[1].status = "Paused"
    /\ rules[1].trigger_type = "Time"
    /\ block_time >= rules[1].next_execution
    /\ authorized_engine = ENGINE /\ vault_address = VAULT
    /\ balances[rules[1].owner] >= rules[1].amount

\* C17: no catch-up bursts.  A successful execute_rule of a Time rule at block
\* time t leaves next_execution = t + period, however far t is past the former
\* next_execution; a Time rule that has run has its next_execution at least one
\* period after last_executed, so an execute_rule earlier than that reverts
\* with TriggerTimeNotReached, and two successful runs of the same Time rule
\* are at least one period apart.
C17_NoCatchUpBursts ==
    /\ [](\A id \in DOMAIN rules :
             (rules[id].trigger_type = "Time" /\ rules[id].execution_count > 0) =>
                 rules[id].next_execution >=
                     rules[id].last_executed + Period(rules[id].schedule))
    /\ [][ last'.op = "execute_rule" =>
             /\ last'.result = "Ok" =>
                  LET id == events'[Len(events')].rule_id
                      rule == rules[id]
                  IN rule.trigger_type = "Time" =>
                       /\ block_time >= rule.next_execution
                       /\ rules'[id].next_execution = block_time + Period(rule.schedule)
                       /\ rule.execution_count > 0 =>
                              block_time >= rule.last_executed + Period(rule.schedule)
             /\ \A c \in Users, id \in DOMAIN rules :
                  ( /\ rules[id].status = "Active"
                    /\ rules[id].trigger_type = "Time"
                    /\ rules[id].execution_count > 0
                    /\ block_time < rules[id].last_executed + Period(rules[id].schedule)
                    /\ ExecuteRule(c, id) )
                  => last'.result = "TriggerTimeNotReached" /\ NothingHappened
         ]_vars

\* C17 witness: a Daily rule created at GenesisTime ran late, two days after
\* its creation; its next run is due a full day after that run, and an
\* execute_rule at the block time of the run has just been refused.
C17_Witness ==
    /\ last.op = "execute_rule" /\ last.result = "TriggerTimeNotReached"
    /\ rules[1].trigger_type = "Time" /\ rules[1].schedule = "Daily"
    /\ rules[1].execution_count = 1
    /\ rules[1].last_executed = GenesisTime + 2 * 86400
    /\ rules[1].next_execution = GenesisTime + 3 * 86400
    /\ block_time = GenesisTime + 2 * 86400

\* C18: double delete.  delete_rule by the owner on a rule that is already
\* Deleted is not refused: it returns, leaves the rule record as it is (status
\* Deleted), emits one more delete record, and lowers the owner's rule count by
\* one if that count is above zero and leaves it at zero otherwise; no rule
\* count is ever below zero.
C18_DoubleDelete ==
    /\ [](\A u \in Users : user_rule_count[u] >= 0)
    /\ [][ last'.op = "delete_rule" =>
             \A c \in Users, id \in DOMAIN rules :
                 ( /\ rules[id].owner = c
                   /\ rules[id].status = "Deleted"
                   /\ DeleteRule(c, id) )
                 => /\ last'.result = "Ok"
                    /\ rules' = rules
                    /\ events' = <<[type |-> "RuleDeleted", rule_id |-> id, owner |-> c]>>
                    /\ user_rule_count' =
                          [user_rule_count EXCEPT
                              ![c] = IF user_rule_count[c] > 0
                                     THEN user_rule_count[c] - 1
                                     ELSE 0]
                    /\ UNCHANGED <<next_rule_id, user_rules, vault_address, vaultVars>>
         ]_vars

\* C18 witness: alice created rules 1 and 2 and deleted rule 1 twice: rule 2 is
\* still Active and her rule count is 0.
C18_Witness ==
    /\ last.op = "delete_rule" /\ last.result = "Ok"
    /\ user_rules["alice"] = <<1, 2>>
    /\ next_rule_id = 3
    /\ rules[1].status = "Deleted"
    /\ rules[2].status = "Active"
    /\ user_rule_count["alice"] = 0

\* C19: rule-count bookkeeping.  A successful create_rule raises the caller's
\* rule count by exactly one and a successful delete_rule lowers the caller's
\* by one (from zero it stays at zero, C18); these change no other account's
\* count, and no other step (pause_rule, resume_rule, execute_rule, a failed
\* call) changes any count.  An account whose count is 2 is refused by
\* create_rule with MaxRulesReached also when one of its rules is Paused.
C19_RuleCountBookkeeping ==
    [][ /\ IF last'.op = "create_rule" /\ last'.result = "Ok"
           THEN LET creator == events'[1].owner
                IN user_rule_count' =
                       [user_rule_count EXCEPT ![creator] = user_rule_count[creator] + 1]
           ELSE IF last'.op = "delete_rule" /\ last'.result = "Ok"
           THEN LET deleter == events'[1].owner
                IN user_rule_count' =
                       [user_rule_count EXCEPT
                           ![deleter] = IF user_rule_count[deleter] > 0
                                        THEN user_rule_count[deleter] - 1
                                        ELSE 0]
           ELSE user_rule_count' = user_rule_count
        /\ last'.op = "create_rule" =>
              \A c \in Users :
                  ( /\ user_rule_count[c] = 2
                    /\ \E id \in DOMAIN rules :
                           rules[id].owner = c /\ rules[id].status = "Paused"
                    /\ CreateRule(c, ManualCompound) )
                  => last'.result = "MaxRulesReached" /\ NothingHappened
      ]_vars

\* C19 witness: alice holds two rules, one of them Paused, and her count is 2;
\* bob has created nothing, so the create_rule that has just been refused was
\* hers.
C19_Witness ==
    /\ last.op = "create_rule" /\ last.result = "MaxRulesReached"
    /\ user_rules["alice"] = <<1, 2>>
    /\ user_rules["bob"] = <<>>
    /\ user_rule_count["alice"] = 2
    /\ rules[1].status = "Paused"
    /\ rules[2].status = "Active"

\* C20: rescheduling on status change.  A successful resume_rule at block time
\* t makes the rule Active with next_execution = t + period(schedule), whatever
\* it was, and changes no other field, so a Time rule is not due right after
\* its resume; a successful pause_rule changes the status only (next_execution,
\* last_executed and execution_count stay); next_execution is written by a
\* successful resume_rule or execute_rule only, as block time + period.
C20_Rescheduling ==
    [][ /\ (last'.op = "resume_rule" /\ last'.result = "Ok") =>
              LET id == events'[1].rule_id
                  rule == rules[id]
              IN /\ rules' = [rules EXCEPT
                                ![id] = [rule EXCEPT
                                           !.status = "Active",
                                           !.next_execution =
                                               block_time + Period(rule.schedule)]]
                 /\ rule.trigger_type = "Time" =>
                        DueCheck(rules'[id], rule.owner, block_time') = "TriggerTimeNotReached"
        /\ (last'.op = "pause_rule" /\ last'.result = "Ok") =>
              LET id == events'[1].rule_id
              IN rules' = [rules EXCEPT ![id] = [rules[id] EXCEPT !.status = "Paused"]]
        /\ \A id \in DOMAIN rules :
              rules'[id].next_execution # rules[id].next_execution =>
                  /\ last'.op \in {"resume_rule", "execute_rule"}
                  /\ last'.result = "Ok"
                  /\ rules'[id].next_execution = block_time + Period(rules[id].schedule)
      ]_vars

\* C20 witness: a Daily Time rule created at GenesisTime, never run, was due
\* one day later; paused and resumed at that time, it is now due another day
\* later.
C20_Witness ==
    /\ last.op = "resume_rule" /\ last.result = "Ok"
    /\ rules[1].trigger_type = "Time" /\ rules[1].schedule = "Daily"
    /\ rules[1].execution_count = 0
    /\ block_time = GenesisTime + 86400
    /\ rules[1].next_execution = GenesisTime + 2 * 86400

\* C21: unrestricted reassignment of the authorized caller.
\* set_automation_engine(id) returns for every caller and every prior
\* configuration, makes id the authorized caller and changes nothing else; an
\* execute_transfer by anyone else, the formerly authorized caller included,
\* then reverts with UnauthorizedExecutor, and one by the authorized caller
\* debits any owner whose balance covers the amount.
C21_UnrestrictedReassignment ==
    /\ [](\A c \in Users, o \in Users, a \in 0..MaxAmount :
             TransferOutcome(c, o, a) = "UnauthorizedExecutor" <=> c # authorized_engine)
    /\ [][ /\ last'.op = "set_automation_engine" =>
                 \A c \in Users, e \in {ENGINE, "bob"} :
                     SetAutomationEngine(c, e) =>
                         /\ last'.result = "Ok"
                         /\ authorized_engine' = e
                         /\ UNCHANGED <<balances, total_deposited, total_paid_out,
                                        engineVars, block_time>>
           /\ last'.op = "execute_transfer" =>
                 \/ last'.result = "UnauthorizedExecutor" /\ NothingHappened
                 \/ /\ ~ \E c \in Users, o \in Users, a \in 0..MaxAmount, id \in {1, MaxRuleId + 1} :
                           c # authorized_engine /\ ExecuteTransfer(c, o, "bob", a, id)
                    /\ \A o \in Users, a \in 0..MaxAmount, id \in {1, MaxRuleId + 1} :
                           ExecuteTransfer(authorized_engine, o, "bob", a, id) =>
                               IF balances[o] >= a
                               THEN /\ last'.result = "Ok"
                                    /\ balances' = [balances EXCEPT ![o] = balances[o] - a]
                               ELSE last'.result = "InsufficientBalance" /\ NothingHappened
         ]_vars

\* C21 witness: the engine was the authorized caller when alice's rule ran;
\* bob has since been made the authorized caller and has just debited alice's
\* account by a direct execute_transfer.
C21_Witness ==
    /\ last.op = "execute_transfer" /\ last.result = "Ok"
    /\ authorized_engine = "bob"
    /\ events[1].owner = "alice" /\ events[1].amount = 1
    /\ 1 \in DOMAIN rules
    /\ rules[1].owner = "alice"
    /\ rules[1].execution_count = 1
    /\ total_paid_out = 2
    /\ balances["alice"] = 0

\* C22: Condition rules are ungated.  execute_rule on an Active Condition rule
\* never ends in a due-check error, for the owner and for every other caller,
\* at every block time (before next_execution too): it goes on to the action,
\* and each success on a Condition Transfer rule debits the owner by the
\* rule's amount.
C22_ConditionUngated ==
    [][ last'.op = "execute_rule" =>
          \A c \in Users, id \in DOMAIN rules :
              ( /\ rules[id].status = "Active"
                /\ rules[id].trigger_type = "Condition"
                /\ ExecuteRule(c, id) )
              => /\ last'.result \notin DueCheckErrors
                 /\ last'.result = DispatchOutcome(rules[id])
                 /\ (last'.result = "Ok" /\ rules[id].action_type = "Transfer") =>
                        balances' = [balances EXCEPT
                                       ![rules[id].owner] = @ - rules[id].amount]
      ]_vars

\* C22 witness: a Condition Transfer rule has run twice at the block time it
\* was created at, before its next_execution, and debited its owner twice.
C22_Witness ==
    /\ last.op = "execute_rule" /\ last.result = "Ok"
    /\ rules[1].trigger_type = "Condition" /\ rules[1].action_type = "Transfer"
    /\ rules[1].execution_count = 2
    /\ rules[1].last_executed = GenesisTime
    /\ block_time = GenesisTime
    /\ total_paid_out = 2 * rules[1].amount
    /\ balances[rules[1].owner] = 0

\* C23: Compound is a no-op on funds.  execute_rule on an Active, due Compound
\* rule returns whatever the vault reference, the authorized caller, the
\* owner's balance and the rule's recipient are; it leaves the vault as it is,
\* emits no record of the vault (the vault is not called), sets last_executed
\* to the block time, next_execution to block time + period, raises
\* execution_count by one and emits the execution record.
C23_CompoundNoOp ==
    [][ last'.op = "execute_rule" =>
          \A c \in Users, id \in DOMAIN rules :
              ( /\ rules[id].status = "Active"
                /\ rules[id].action_type = "Compound"
                /\ PassesDueCheck(rules[id], c)
                /\ ExecuteRule(c, id) )
              => /\ last'.result = "Ok"
                 /\ UNCHANGED <<balances, authorized_engine, total_deposited, total_paid_out>>
                 /\ events' = <<[type |-> "RuleExecuted", rule_id |-> id,
                                 owner |-> rules[id].owner, executed_at |-> block_time]>>
                 /\ rules' = [rules EXCEPT
                                ![id] = [rules[id] EXCEPT
                                           !.last_executed = block_time,
                                           !.next_execution =
                                               block_time + Period(rules[id].schedule),
                                           !.execution_count = rules[id].execution_count + 1]]
      ]_vars

\* C23 witness: a Compound rule without recipient has just run although the
\* engine holds no vault address, the vault has no authorized caller and
\* nobody has deposited anything.
C23_Witness ==
    /\ last.op = "execute_rule" /\ last.result = "Ok"
    /\ rules[1].action_type = "Compound" /\ rules[1].recipient = NoAddr
    /\ rules[1].execution_count = 1
    /\ vault_address = NoAddr
    /\ authorized_engine = NoAddr
    /\ total_deposited = 0

\* C24: missing transfer configuration.  create_rule accepts a Transfer or
\* Split rule without recipient like any other; execute_rule on an Active, due
\* Transfer or Split rule that has no recipient, or while the engine holds no
\* vault address, reverts with InvalidRuleConfig, changes nothing (rule record
\* and balances included) and emits nothing.
C24_MissingTransferConfig ==
    [][ /\ last'.op = "create_rule" =>
              \A c \in Users, cfg \in RuleInputs :
                  ( /\ cfg.action_type \in {"Transfer", "Split"}
                    /\ cfg.recipient = NoAddr
                    /\ user_rule_count[c] < 2
                    /\ CreateRule(c, cfg) )
                  => /\ last'.result = "Ok"
                     /\ rules'[last'.returned].recipient = NoAddr
                     /\ rules'[last'.returned].status = "Active"
        /\ last'.op = "execute_rule" =>
              \A c \in Users, id \in DOMAIN rules :
                  ( /\ rules[id].status = "Active"
                    /\ rules[id].action_type \in {"Transfer", "Split"}
                    /\ PassesDueCheck(rules[id], c)
                    /\ rules[id].recipient = NoAddr \/ vault_address = NoAddr
                    /\ ExecuteRule(c, id) )
                  => /\ last'.result = "InvalidRuleConfig"
                     /\ rules' = rules /\ balances' = balances
                     /\ NothingHappened
      ]_vars

\* C24 witness: a rule without recipient, of an owner whose balance covers its
\* amount, with the engine and the vault wired to each other; its execute_rule
\* has just been refused.
C24_Witness ==
    /\ last.op = "execute_rule" /\ last.result = "InvalidRuleConfig"
    /\ rules[1].recipient = NoAddr
    /\ rules[1].status = "Active"
    /\ vault_address = VAULT /\ authorized_engine = ENGINE
    /\ balances[rules[1].owner] >= rules[1].amount

\* C25: the history index is append-only.  Every account's list of rule ids
\* is strictly increasing, and every id in it is a stored rule owned by that
\* account (Deleted ones too); every stored rule is in its owner's list; the
\* list changes in a successful create_rule only, by the returned id being
\* appended to the caller's list; pause_rule, resume_rule, delete_rule and
\* execute_rule leave it as it is.
C25_HistoryAppendOnly ==
    /\ [](/\ \A u \in Users :
               /\ \A i \in 1..Len(user_rules[u]) :
                      /\ user_rules[u][i] \in DOMAIN rules
                      /\ rules[user_rules[u][i]].owner = u
                      /\ i > 1 => user_rules[u][i - 1] < user_rules[u][i]
          /\ \A id \in DOMAIN rules :
               \E i \in 1..Len(user_rules[rules[id].owner]) :
                   user_rules[rules[id].owner][i] = id)
    /\ [][ IF last'.op = "create_rule" /\ last'.result = "Ok"
           THEN LET creator == events'[1].owner
                IN user_rules' =
                       [user_rules EXCEPT ![creator] = Append(@, last'.returned)]
           ELSE user_rules' = user_rules
         ]_vars

\* C25 witness: alice created rules 1 and 3, bob rule 2; alice has run and
\* then deleted rule 1, and it is still the first entry of her list.
C25_Witness ==
    /\ last.op = "delete_rule" /\ last.result = "Ok"
    /\ user_rules["alice"] = <<1, 3>>
    /\ user_rules["bob"] = <<2>>
    /\ rules[1].status = "Deleted"
    /\ rules[1].execution_count = 1
    /\ rules[3].status = "Active"

\* C27: the rule count matches the live rules.  In every reachable state the
\* stored rule count of every account is the number of its rules that are
\* Active or Paused.
C27_CountMatchesLive ==
    \A u \in Users : user_rule_count[u] = Cardinality(LiveRules(u))

\* C28: automated debits are rule-backed.  While the engine is the vault's
\* authorized caller and the engine's vault reference is the vault, a step
\* that lowers the balance of an account X is X's own withdraw, or a
\* successful execute_rule on a rule that is Active, owned by X and of kind
\* Transfer or Split, which lowers the balance by that rule's amount and whose
\* vault record carries X, the rule's id, its recipient and its amount.
C28_DebitsRuleBacked ==
    [][ (authorized_engine = ENGINE /\ vault_address = VAULT) =>
          \A X \in Users :
              balances'[X] < balances[X] =>
                  /\ last'.result = "Ok"
                  /\ \/ /\ last'.op = "withdraw"
                        /\ events'[1].owner = X
                        /\ balances'[X] = balances[X] - events'[1].amount
                     \/ /\ last'.op = "execute_rule"
                        /\ LET id == events'[Len(events')].rule_id
                               rule == rules[id]
                           IN /\ rule.status = "Active"
                              /\ rule.owner = X
                              /\ rule.action_type \in {"Transfer", "Split"}
                              /\ balances'[X] = balances[X] - rule.amount
                              /\ events'[1] = [type |-> "AutomationExecuted", owner |-> X,
                                               rule_id |-> rule.id,
                                               recipient |-> rule.recipient,
                                               amount |-> rule.amount]
      ]_vars

\* C28 witness: with the engine and the vault wired to each other, alice
\* deposited 2 and withdrew 1 herself, and her Transfer rule has just taken
\* the other 1.
C28_Witness ==
    /\ last.op = "execute_rule" /\ last.result = "Ok"
    /\ authorized_engine = ENGINE /\ vault_address = VAULT
    /\ rules[1].owner = "alice" /\ rules[1].action_type = "Transfer"
    /\ rules[1].amount = 1 /\ rules[1].execution_count = 1
    /\ total_deposited = 2 /\ total_paid_out = 2
    /\ balances = [a \in Users |-> 0]

\* C29: rule configuration is immutable.  In every step every stored rule
\* keeps its id, owner, trigger kind, schedule, action kind, recipient and
\* amount, and its execution_count does not go down, whichever of pause_rule,
\* resume_rule, delete_rule and execute_rule is called by whichever caller.
C29_ConfigImmutable ==
    [][ \A id \in DOMAIN rules :
          /\ id \in DOMAIN rules'
          /\ rules'[id].id = rules[id].id
          /\ rules'[id].owner = rules[id].owner
          /\ rules'[id].trigger_type = rules[id].trigger_type
          /\ rules'[id].schedule = rules[id].schedule
          /\ rules'[id].action_type = rules[id].action_type
          /\ rules'[id].recipient = rules[id].recipient
          /\ rules'[id].amount = rules[id].amount
          /\ rules'[id].execution_count >= rules[id].execution_count
      ]_vars

\* C29 witness: a rule that has run was paused, and has just been resumed a
\* day after its creation with its execution_count kept.
C29_Witness ==
    /\ last.op = "resume_rule" /\ last.result = "Ok"
    /\ rules[1].execution_count = 1
    /\ rules[1].last_executed = GenesisTime
    /\ block_time = GenesisTime + 86400

\* Two different Active, due Time Transfer rules of one owner, wired to the
\* vault, whose amounts the owner's balance covers one at a time and not
\* together.
Contend(first, second) ==
    /\ first # second
    /\ rules[first].owner = rules[second].owner
    /\ authorized_engine = ENGINE
    /\ \A id \in {first, second} :
          /\ rules[id].status = "Active"
          /\ rules[id].trigger_type = "Time"
          /\ rules[id].action_type = "Transfer"
          /\ block_time >= rules[id].next_execution
          /\ ReachesVault(rules[id])
          /\ balances[rules[id].owner] >= rules[id].amount
    /\ balances[rules[first].owner] < rules[first].amount + rules[second].amount

\* C26: serialized debits against one balance.  Of two contending rules the
\* one whose execute_rule comes first, whichever it is, runs and leaves the
\* owner's balance at the former balance minus its amount, which no longer
\* covers the other rule's amount; an execute_rule on a due Transfer rule
\* whose amount the owner's balance does not cover reverts with
\* InsufficientBalance and changes nothing; no balance is negative in any
\* state.
C26_SerializedDebits ==
    /\ [](\A a \in Users : balances[a] >= 0)
    /\ [][ last'.op = "execute_rule" =>
             /\ \A c \in Users, first \in DOMAIN rules, second \in DOMAIN rules :
                  (Contend(first, second) /\ ExecuteRule(c, first))
                  => /\ last'.result = "Ok"
                     /\ balances'[rules[first].owner] =
                            balances[rules[first].owner] - rules[first].amount
                     /\ rules'[second].status = "Active"
                     /\ balances'[rules'[second].owner] < rules'[second].amount
             /\ \A c \in Users, id \in DOMAIN rules :
                  ( /\ rules[id].status = "Active"
                    /\ rules[id].trigger_type = "Time"
                    /\ rules[id].action_type = "Transfer"
                    /\ block_time >= rules[id].next_execution
                    /\ ReachesVault(rules[id])
                    /\ authorized_engine = ENGINE
                    /\ balances[rules[id].owner] < rules[id].amount
                    /\ ExecuteRule(c, id) )
                  => last'.result = "InsufficientBalance" /\ NothingHappened
         ]_vars

\* C26 witness: alice deposited 2 and holds two due rules, for 1 and for 2; one
\* of them has run, her balance is 2 minus its amount, and the execute_rule on
\* the other one has just been refused.
C26_Witness ==
    /\ last.op = "execute_rule" /\ last.result = "InsufficientBalance"
    /\ total_deposited = 2
    /\ DOMAIN rules = {1, 2}
    /\ \E first \in {1, 2} :
          LET second == 3 - first
          IN /\ rules[first].execution_count = 1
             /\ rules[second].execution_count = 0
             /\ rules[first].amount # rules[second].amount
             /\ rules[second].status = "Active"
             /\ block_time >= rules[second].next_execution
             /\ total_paid_out = rules[first].amount
             /\ balances["alice"] = 2 - rules[first].amount

\* The rule can run as soon as it is due: it is an Active Time Transfer rule,
\* the engine and the vault are wired to each other, and the owner's balance
\* covers the amount.
Ready ==
    /\ 1 \in DOMAIN rules
    /\ rules[1].status = "Active"
    /\ rules[1].trigger_type = "Time"
    /\ rules[1].action_type = "Transfer"
    /\ authorized_engine = ENGINE
    /\ vault_address = VAULT
    /\ balances[rules[1].owner] >= rules[1].amount

\* C30: due rules eventually run.  With a clock that keeps advancing and a
\* trigger source that keeps calling execute_rule (weak fairness of both), a
\* rule that is Ready with execution_count n is eventually run once more
\* (execution_count above n), unless it stops being Ready (it is paused or
\* deleted, the balance falls below the amount, the wiring is changed); this
\* for every n the model counts up to, so the count keeps growing while the
\* rule stays Ready.
C30_DueRulesEventuallyRun ==
    \A n \in 0..(MaxLiveExecutions - 1) :
        (Ready /\ rules[1].execution_count = n)
            ~> (~Ready \/ rules[1].execution_count > n)

\* C30 witness: the rule has run as often as the model counts, a day or more
\* apart, and is Ready still.
C30_Witness ==
    /\ Ready
    /\ last.op = "execute_rule" /\ last.result = "Ok"
    /\ rules[1].execution_count = MaxLiveExecutions
    /\ rules[1].last_executed >= GenesisTime + MaxLiveExecutions * 86400
=============================================================================
